---- MODULE Spec2Model ----
(***************************************************************************)
(* A model of aifixer.py: the command-line run (argument dispatch, the     *)
(* catalog and chat requests, the spinner thread, the exit paths) and the  *)
(* text functions it applies to the assistant's answer.                    *)
(*                                                                         *)
(* Text is a sequence of one-character strings.  What is printed is kept   *)
(* as a sequence of message names, one per print call.                     *)
(***************************************************************************)
EXTENDS Integers, Sequences, FiniteSets, TLC

VARIABLES
    args,            \* the argparse namespace (the flags main reads)
    tty,             \* sys.stdout.isatty()
    api_key,         \* OPENROUTER_API_KEY is set in the environment
    healthy,         \* environment: the model ids the chat endpoint answers 200 for
    pc,              \* position of the main thread
    backend,         \* branch taken at the backend dispatch (line 547)
    model,           \* args.model
    models,          \* ids of the filtered, sorted catalog of the last catalog fetch
    priced,          \* some entry of that catalog has price information
    sent,            \* every HTTP request sent so far, in order, with its outcome
    stdout,          \* what was printed to standard output
    stderr,          \* what was printed to standard error
    exit_code,       \* status the main thread exits with (NoExit before)
    stop_spinner,    \* the flag the spinner loop polls
    spinner_thread,  \* "none" | "running" | "finished"
    spinner_idx,     \* index into spinner_chars
    raw,             \* the assistant message text of the 200 response
    output,          \* the local variable output of main
    interrupted,     \* a KeyboardInterrupt was delivered
    proc,            \* "alive" | "terminated"
    response_data,   \* the data array of the catalog answer (fetch_openrouter_models)
    input_text,      \* the input text (get_input)
    files_with_todos,\* what analyze_codebase_for_todos returns
    content          \* the content of the user message of the chat request

vars == <<args, tty, api_key, healthy, pc, backend, model, models, priced, sent,
          stdout, stderr, exit_code, stop_spinner, spinner_thread, spinner_idx,
          raw, output, interrupted, proc, response_data, input_text, files_with_todos,
          content>>

(***************************************************************************)
(* Bounds of the model.                                                    *)
(***************************************************************************)
\* longest catalog the catalog endpoint answers with
MaxCatalog == 2
\* longest assistant answer, in tokens (a fence, a letter or a newline)
MaxTokens == 6
\* longest input text, in parts (a file header, a letter, a newline, a marker)
MaxParts == 4

(***************************************************************************)
(* Text.                                                                   *)
(***************************************************************************)
\* "~" stands for the backtick character (U+0060), which the TLA+ lexer does not
\* accept inside a string.
Backtick == "~"
WordChars == {"a", "b"}
SpaceChars == {"\n"}
Fence == <<Backtick, Backtick, Backtick>>

Min(S) == CHOOSE x \in S : \A y \in S : x <= y
Max(S) == CHOOSE x \in S : \A y \in S : y <= x

\* number of consecutive characters of class C in s from position p on
Run(s, p, C) ==
    Max({n \in 0..(Len(s) + 1 - p) : \A i \in 0..(n - 1) : s[p + i] \in C})

\* str.strip()
strip(s) ==
    LET keep == {i \in 1..Len(s) : s[i] \notin SpaceChars}
    IN  IF keep = {} THEN <<>> ELSE SubSeq(s, Min(keep), Max(keep))

\* the literal ``` at position p
IsFence(s, p) ==
    /\ p >= 1
    /\ p + 2 <= Len(s)
    /\ s[p] = Backtick /\ s[p + 1] = Backtick /\ s[p + 2] = Backtick

\* \s*``` matches at position e: where its fence starts, 0 when it does not match.
\* (\s* is greedy and a fence starts with no whitespace, so the fence can only
\* follow the whole whitespace run.)
closing_fence(s, e) ==
    LET f == e + Run(s, e, SpaceChars)
    IN  IF IsFence(s, f) THEN f ELSE 0

\* code_block_pattern tried at position p (line 239):
\*     ```(?:\w+)?\s*([\s\S]+?)\s*```
\* The engine backtracks the greedy tag (\w+)? and the greedy \s* from their
\* longest match down, so the start q of the group is tried from its largest value
\* p+3+tag+spaces down to p+3; for each start the lazy group ends at the first
\* position after which \s*``` matches.  The first success is the match.
code_block_match(s, p) ==
    LET tag    == Run(s, p + 3, WordChars)
        spaces == Run(s, p + 3 + tag, SpaceChars)
        ends(q) == {e \in (q + 1)..(Len(s) + 1) : closing_fence(s, e) # 0}
        starts == {q \in (p + 3)..(p + 3 + tag + spaces) : ends(q) # {}}
    IN  IF ~IsFence(s, p) \/ starts = {}
        THEN [ok |-> FALSE, group |-> <<>>, next |-> 0]
        ELSE LET q == Max(starts)
                 e == Min(ends(q))
             IN  [ok |-> TRUE, group |-> SubSeq(s, q, e - 1),
                  next |-> closing_fence(s, e) + 3]

\* re.findall(code_block_pattern, output), scanning from position p (line 240):
\* the leftmost match, then on from its end.
RECURSIVE findall_code_blocks(_, _)
findall_code_blocks(s, p) ==
    LET hits == {i \in p..Len(s) : code_block_match(s, i).ok}
    IN  IF hits = {} THEN <<>>
        ELSE LET m == code_block_match(s, Min(hits))
             IN  <<m.group>> \o findall_code_blocks(s, m.next)

\* max(code_blocks, key=len): the first element of maximal length (line 244)
max_by_len(blocks) ==
    LET best == Max({Len(blocks[i]) : i \in 1..Len(blocks)})
    IN  blocks[Min({i \in 1..Len(blocks) : Len(blocks[i]) = best})]

\* Lines 246-287, reached when code_block_pattern matches nowhere.  The search at
\* line 256 embeds the same pattern, so it cannot match either.  The substitutions
\* and the code-start search of lines 264-284 look for '#', for the words
\* fixed/corrected/completed/implemented and for keywords; the alphabet of the model
\* (backtick, a, b, newline) forms none of them, which leaves output.strip().
strip_prose(out) == strip(out)

\* extract_fixed_file(output)
extract_fixed_file(out) ==
    LET code_blocks == findall_code_blocks(out, 1)
    IN  IF code_blocks # <<>> THEN strip(max_by_len(code_blocks))
        ELSE strip_prose(out)

(***************************************************************************)
(* The catalog (fetch_openrouter_models).                                  *)
(***************************************************************************)
\* --num-models default (line 461)
NumModelsDefault == 20
DefaultModel == "anthropic/claude-3-sonnet-20240229"
AutoRouter == "openrouter/auto"
ModelIds == {"a/one", "b/two"}
SortKeys == {"price", "best", "context"}
\* pricing.prompt as the catalog endpoint sends it: a JSON string holding a decimal
\* number, here the sequence of its digits ("0", "9", "10")
Prices == {<<0>>, <<9>>, <<1, 0>>}
ContextLengths == {1, 2}

\* float(s) of a string of digits (lines 45, 46)
RECURSIVE float(_)
float(s) ==
    IF s = <<>> THEN 0
    ELSE 10 * float(SubSeq(s, 1, Len(s) - 1)) + s[Len(s)]

\* s < t on str: the first differing character decides, a proper prefix is smaller
\* (the comparison of the tuples of line 44, whose first component is the string)
str_less(s, t) ==
    LET n    == IF Len(s) < Len(t) THEN Len(s) ELSE Len(t)
        diff == {i \in 1..n : s[i] # t[i]}
    IN  IF diff = {} THEN Len(s) < Len(t)
        ELSE s[Min(diff)] < t[Min(diff)]

\* one entry of the data array of the catalog answer
Entries ==
    {e \in [id : ModelIds \cup {AutoRouter}, pricing : BOOLEAN,
            prompt : Prices, context_length : ContextLengths] :
        ~e.pricing => e.prompt = <<0>>}

\* the catalogs the endpoint may answer with: each model listed once
Catalogs ==
    {c \in UNION {[1..n -> Entries] : n \in 0..MaxCatalog} :
        \A i, j \in 1..Len(c) : i # j => c[i].id # c[j].id}

\* sort_options[sort_key](x) < sort_options[sort_key](y), on tuples (lines 43-47)
key_less(x, y, sort_key) ==
    CASE sort_key = "price" ->
           \/ str_less(x.prompt, y.prompt)
           \/ x.prompt = y.prompt /\ x.context_length > y.context_length
      [] sort_key = "best" ->
           \/ float(x.prompt) > float(y.prompt)
           \/ float(x.prompt) = float(y.prompt) /\ x.context_length > y.context_length
      [] sort_key = "context" ->
           \/ x.context_length > y.context_length
           \/ x.context_length = y.context_length /\ float(x.prompt) < float(y.prompt)

\* list.sort(key=...): stable, ascending (line 50)
RECURSIVE sort_models(_, _)
sort_models(ms, sort_key) ==
    IF ms = <<>> THEN <<>>
    ELSE LET x    == ms[Len(ms)]
             rest == sort_models(SubSeq(ms, 1, Len(ms) - 1), sort_key)
             n    == Cardinality({i \in 1..Len(rest) : ~key_less(x, rest[i], sort_key)})
         IN  SubSeq(rest, 1, n) \o <<x>> \o SubSeq(rest, n + 1, Len(rest))

\* the filter of line 40
filter_models(data) ==
    SelectSeq(data, LAMBDA m : m.pricing /\ m.id # AutoRouter)

\* lines 37-50: the filtered, sorted catalog
eligible_models(data, sort_key) == sort_models(filter_models(data), sort_key)

MsgTableHeader == "Model ID | Context Length | Prompt Cost | Completion Cost | Description"
MsgTableRule == "-----"
MsgTableRow == "<table row>"
MsgCatalogFailed == "Failed to retrieve models. Status code: <status>"
MsgResponse == "Response: <text>"

\* what fetch_openrouter_models prints on a 200 answer (lines 36-91)
catalog_prints(data, num_models, auto_select, sort_key) ==
    LET sorted   == eligible_models(data, sort_key)
        selected == SubSeq(sorted, 1, IF Len(sorted) < num_models THEN Len(sorted)
                                      ELSE num_models)
    IN  IF auto_select /\ Len(selected) > 0
        THEN <<selected[1].id>>
        ELSE <<MsgTableHeader, MsgTableRule>>
             \o [i \in 1..Len(selected) |-> MsgTableRow]

\* the ids of the filtered, sorted catalog, in order
model_ids(data, sort_key) ==
    [i \in 1..Len(eligible_models(data, sort_key)) |-> eligible_models(data, sort_key)[i].id]

\* The two calls of the program (line 493 and line 507) on every catalog: what
\* the call leaves behind, for each of its argument lists.
CatalogAnswers ==
    [call \in {<<NumModelsDefault, FALSE>>, <<1, TRUE>>} \X SortKeys |->
        {[models |-> model_ids(data, call[2]),
          priced |-> \E i \in 1..Len(data) : data[i].pricing,
          prints |-> catalog_prints(data, call[1][1], call[1][2], call[2])] :
            data \in Catalogs}]

\* what it prints on any other status (lines 92-94)
catalog_failure_prints == <<MsgCatalogFailed, MsgResponse>>

\* f.getvalue().strip() (line 509): the captured prints as one text.  A single
\* print of an id is that id; several lines are named by their first line.
captured_text(prints) ==
    IF prints = <<>> THEN "" ELSE prints[1]

(***************************************************************************)
(* The run: __main__ and main().                                           *)
(***************************************************************************)
\* len(spinner_chars) (line 540)
SpinnerChars == 10
NoExit == 0 - 1

OllamaModel == "codellama"

MsgBanner == "ASCII_BANNER"
MsgExamples == "AIFixer Usage Examples"
MsgHelp == "usage: aifixer"
MsgOllamaTable == "Model Name | Size | Modified Date | Family"
MsgOllamaListFailed == "Failed to retrieve Ollama models. Status code: <status>"
MsgOllamaListUnreachable == "Failed to connect to Ollama. Is Ollama running on localhost:11434?"
MsgTodoFiles == "Files containing TODOs / No files with TODOs found."
MsgProcessing == "AIFixer: Processing with AI..."
MsgUsingOllama == "(using Ollama model: <model>)"
MsgUsingOpenRouter == "(using OpenRouter model: <model>)"
MsgSpinnerFrame == "<spinner frame>"
MsgDone == "Done in <elapsed>s"
MsgNoKey == "Error: OPENROUTER_API_KEY environment variable not set"
MsgSetKey == "Please set it with: export OPENROUTER_API_KEY=your_api_key"
MsgChatFailed == "Error: Failed to retrieve response. Status code: <status>"
MsgOllamaChatFailed == "Error: Failed to retrieve response from Ollama. Status code: <status>"
MsgOllamaUnreachable == "Error: Failed to connect to Ollama. Is Ollama running on localhost:11434?"
MsgCancelled == "Operation cancelled"
MsgCancelledByUser == "Operation cancelled by user"
MsgError == "Error: <exception>"
MsgTraceback == "Traceback (most recent call last)"
MsgOutput == "<output>"

\* the messages that report a failure
Diagnostics ==
    {MsgCatalogFailed, MsgResponse, MsgOllamaListFailed, MsgOllamaListUnreachable,
     MsgNoKey, MsgSetKey, MsgChatFailed, MsgOllamaChatFailed, MsgOllamaUnreachable,
     MsgCancelled, MsgCancelledByUser, MsgError, MsgTraceback}

\* the command lines of the model
ArgSets ==
    [help_examples : BOOLEAN, list_models : BOOLEAN, list_ollama_models : BOOLEAN,
     free : BOOLEAN, ollama_model : {"", OllamaModel}, sort_by : SortKeys,
     list_todo_files : BOOLEAN, fix_file_only : BOOLEAN, has_input : BOOLEAN]

\* assistant answers of the run: plain text, and text with one fenced block
SampleResponses ==
    {<<"a">>, <<"b", "\n">> \o Fence \o <<"\n", "a", "\n">> \o Fence}

Request(kind, m) == [kind |-> kind, model |-> m, status |-> "pending"]

\* indices of the requests sent and not yet answered
InFlight == {i \in DOMAIN sent : sent[i].status = "pending"}

\* the one pending request gets its outcome
Answered(status) ==
    [i \in DOMAIN sent |-> IF sent[i].status = "pending"
                           THEN [sent[i] EXCEPT !.status = status] ELSE sent[i]]

\* the positions of main inside the try of lines 546-653
InTry == {"ollama_wait", "openrouter_wait", "stop", "join"}

Init ==
    /\ args \in ArgSets
    /\ tty \in BOOLEAN
    /\ api_key \in BOOLEAN
    /\ healthy \in SUBSET (ModelIds \cup {DefaultModel})
    /\ pc = "start"
    /\ backend = "none"
    /\ model = DefaultModel
    /\ models = <<>>
    /\ priced = FALSE
    /\ sent = <<>>
    /\ stdout = <<>>
    /\ stderr = <<>>
    /\ exit_code = NoExit
    /\ stop_spinner = FALSE
    /\ spinner_thread = "none"
    /\ spinner_idx = 0
    /\ raw = <<>>
    /\ output = <<>>
    /\ interrupted = FALSE
    /\ proc = "alive"
    /\ response_data = <<>>
    /\ input_text = <<>>
    /\ files_with_todos = <<>>
    /\ content = <<>>

\* what no step of the run changes
Environment == <<args, tty, api_key, healthy>>
\* The run keeps of the catalog, of the input and of the prompt what main branches
\* on (the selected id, whether there is input); the texts themselves are the
\* state of the functions specified on their own further down.
Texts == <<response_data, input_text, files_with_todos, content>>
Spinner == <<stop_spinner, spinner_thread, spinner_idx>>
Catalog == <<models, priced>>

\* sys.exit(code), or the script running to its end (code 0), or an uncaught
\* exception (code 1): the main thread is over.
Exit(code) ==
    /\ pc' = "exited"
    /\ exit_code' = code

\* lines 672-685: the banner, then main() is called
MainEntry ==
    /\ pc = "start"
    /\ pc' = "main"
    /\ stdout' = IF tty THEN stdout \o <<MsgBanner>> ELSE stdout
    /\ UNCHANGED <<Environment, Texts, Spinner, backend, model, Catalog, sent, stderr,
                   exit_code, raw, output, interrupted, proc>>

\* lines 486-489
HelpExamples ==
    /\ pc = "main"
    /\ args.help_examples
    /\ stdout' = stdout \o <<MsgExamples>>
    /\ Exit(0)
    /\ UNCHANGED <<Environment, Texts, Spinner, backend, model, Catalog, sent, stderr,
                   raw, output, interrupted, proc>>

\* lines 492-493, 30-34: the catalog GET of --list-models
ListModelsRequest ==
    /\ pc = "main"
    /\ ~args.help_examples
    /\ args.list_models
    /\ sent' = Append(sent, Request("catalog", ""))
    /\ pc' = "list_models_wait"
    /\ UNCHANGED <<Environment, Texts, Spinner, backend, model, Catalog, stdout, stderr,
                   exit_code, raw, output, interrupted, proc>>

\* lines 36-91, 494: status 200, the table is printed, main returns
ListModelsOk ==
    /\ pc = "list_models_wait"
    /\ \E answer \in CatalogAnswers[<<<<NumModelsDefault, FALSE>>, args.sort_by>>] :
        /\ models' = answer.models
        /\ priced' = answer.priced
        /\ stdout' = stdout \o answer.prints
    /\ sent' = Answered("ok")
    /\ Exit(0)
    /\ UNCHANGED <<Environment, Texts, Spinner, backend, model, stderr, raw, output,
                   interrupted, proc>>

\* lines 92-94, 494: another status, the failure is printed, main returns
ListModelsStatus ==
    /\ pc = "list_models_wait"
    /\ stdout' = stdout \o catalog_failure_prints
    /\ sent' = Answered("failed")
    /\ Exit(0)
    /\ UNCHANGED <<Environment, Texts, Spinner, backend, model, Catalog, stderr, raw, output,
                   interrupted, proc>>

\* line 34 or 37 raises (no connection, or a body that is not JSON): nothing
\* catches it, the traceback goes to standard error and the status is 1
ListModelsRaises ==
    /\ pc = "list_models_wait"
    /\ stderr' = stderr \o <<MsgTraceback>>
    /\ sent' = Answered("failed")
    /\ Exit(1)
    /\ UNCHANGED <<Environment, Texts, Spinner, backend, model, Catalog, stdout, raw, output,
                   interrupted, proc>>

\* lines 496-497, 98-101: the tags GET of --list-ollama-models
ListOllamaRequest ==
    /\ pc = "main"
    /\ ~args.help_examples
    /\ ~args.list_models
    /\ args.list_ollama_models
    /\ sent' = Append(sent, Request("tags", ""))
    /\ pc' = "list_ollama_wait"
    /\ UNCHANGED <<Environment, Texts, Spinner, backend, model, Catalog, stdout, stderr,
                   exit_code, raw, output, interrupted, proc>>

\* lines 103-139, 498: the table (200), the failure (another status) or the
\* connection error is printed, and main returns
ListOllamaAnswer ==
    /\ pc = "list_ollama_wait"
    /\ \E answer \in {"ok", "status", "connection_error"} :
        /\ stdout' = stdout \o
             (CASE answer = "ok" -> <<MsgOllamaTable, MsgTableRule>>
                [] answer = "status" -> <<MsgOllamaListFailed, MsgResponse>>
                [] answer = "connection_error" -> <<MsgOllamaListUnreachable>>)
        /\ sent' = Answered(IF answer = "ok" THEN "ok" ELSE "failed")
    /\ Exit(0)
    /\ UNCHANGED <<Environment, Texts, Spinner, backend, model, Catalog, stderr, raw, output,
                   interrupted, proc>>

\* FreeRequest without the test of --ollama-model at line 501
FreeRequest_AnyBackend ==
    /\ pc = "main"
    /\ ~args.help_examples
    /\ ~args.list_models
    /\ ~args.list_ollama_models
    /\ args.free
    /\ sent' = Append(sent, Request("catalog", ""))
    /\ pc' = "free_wait"
    /\ UNCHANGED <<Environment, Texts, Spinner, backend, model, Catalog, stdout, stderr,
                   exit_code, raw, output, interrupted, proc>>

\* lines 500-507, 30-34: the catalog GET of --free, its prints captured in f
FreeRequest ==
    /\ pc = "main"
    /\ ~args.help_examples
    /\ ~args.list_models
    /\ ~args.list_ollama_models
    /\ args.free /\ args.ollama_model = ""
    /\ sent' = Append(sent, Request("catalog", ""))
    /\ pc' = "free_wait"
    /\ UNCHANGED <<Environment, Texts, Spinner, backend, model, Catalog, stdout, stderr,
                   exit_code, raw, output, interrupted, proc>>

\* lines 509-511: free_model = f.getvalue().strip(); if free_model: args.model = free_model
set_free_model(prints) ==
    IF captured_text(prints) # "" THEN captured_text(prints) ELSE model

\* lines 36-57 or 59-75, then 509-511: status 200
FreeOk ==
    /\ pc = "free_wait"
    /\ \E answer \in CatalogAnswers[<<<<1, TRUE>>, args.sort_by>>] :
        /\ models' = answer.models
        /\ priced' = answer.priced
        /\ model' = set_free_model(answer.prints)
    /\ sent' = Answered("ok")
    /\ pc' = "input"
    /\ UNCHANGED <<Environment, Texts, Spinner, backend, stdout, stderr, exit_code, raw,
                   output, interrupted, proc>>

\* lines 92-94, then 509-511: another status
FreeStatus ==
    /\ pc = "free_wait"
    /\ model' = set_free_model(catalog_failure_prints)
    /\ sent' = Answered("failed")
    /\ pc' = "input"
    /\ UNCHANGED <<Environment, Texts, Spinner, backend, Catalog, stdout, stderr, exit_code,
                   raw, output, interrupted, proc>>

\* line 34 or 37 raises inside line 507: nothing catches it
FreeRaises ==
    /\ pc = "free_wait"
    /\ stderr' = stderr \o <<MsgTraceback>>
    /\ sent' = Answered("failed")
    /\ Exit(1)
    /\ UNCHANGED <<Environment, Texts, Spinner, backend, model, Catalog, stdout, raw, output,
                   interrupted, proc>>

\* main is at line 514: straight from the option checks, or after the --free block
AtInput ==
    \/ pc = "input"
    \/ /\ pc = "main"
       /\ ~args.help_examples
       /\ ~args.list_models
       /\ ~args.list_ollama_models
       /\ ~(args.free /\ args.ollama_model = "")

\* lines 514-518: no input text, the help is printed and main returns
NoInput ==
    /\ AtInput
    /\ ~args.has_input
    /\ stdout' = stdout \o <<MsgHelp>>
    /\ Exit(0)
    /\ UNCHANGED <<Environment, Texts, Spinner, backend, model, Catalog, sent, stderr,
                   raw, output, interrupted, proc>>

\* lines 520-529: --list-todo-files
ListTodoFiles ==
    /\ AtInput
    /\ args.has_input
    /\ args.list_todo_files
    /\ stdout' = stdout \o <<MsgTodoFiles>>
    /\ Exit(0)
    /\ UNCHANGED <<Environment, Texts, Spinner, backend, model, Catalog, sent, stderr,
                   raw, output, interrupted, proc>>

\* lines 531-542: the processing line, on a terminal
StartProcessing ==
    /\ AtInput
    /\ args.has_input
    /\ ~args.list_todo_files
    /\ stdout' = IF tty THEN stdout \o <<MsgProcessing>> ELSE stdout
    /\ pc' = "process"
    /\ UNCHANGED <<Environment, Texts, Spinner, backend, model, Catalog, sent, stderr,
                   exit_code, raw, output, interrupted, proc>>

\* lines 561-571, 612-622: stop_spinner = False and the thread is started, on a terminal
StartSpinner ==
    /\ stop_spinner' = FALSE
    /\ spinner_thread' = IF tty THEN "running" ELSE spinner_thread
    /\ UNCHANGED spinner_idx

\* lines 547-574, 208-218: the local branch, up to the POST
OllamaRequest ==
    /\ pc = "process"
    /\ args.ollama_model # ""
    /\ backend' = "ollama"
    /\ stdout' = IF tty THEN stdout \o <<MsgUsingOllama>> ELSE stdout
    /\ StartSpinner
    /\ sent' = Append(sent, Request("chat_local", args.ollama_model))
    /\ pc' = "ollama_wait"
    /\ UNCHANGED <<Environment, Texts, model, Catalog, stderr, exit_code, raw, output,
                   interrupted, proc>>

\* an adapter that extracts in every mode
adapter_result_Always(text) == extract_fixed_file(text)

\* lines 186-193, 220-227: the text the adapter returns for the answer text
adapter_result(text) ==
    IF args.fix_file_only THEN extract_fixed_file(text) ELSE text

\* lines 220-227: status 200
OllamaOk ==
    /\ pc = "ollama_wait"
    /\ \E text \in SampleResponses :
        /\ raw' = text
        /\ output' = adapter_result(text)
    /\ sent' = Answered("ok")
    /\ pc' = "stop"
    /\ UNCHANGED <<Environment, Texts, Spinner, backend, model, Catalog, stdout, stderr,
                   exit_code, interrupted, proc>>

\* lines 228-231: another status; sys.exit(1) passes both except clauses of main
OllamaStatus ==
    /\ pc = "ollama_wait"
    /\ stdout' = stdout \o <<MsgOllamaChatFailed, MsgResponse>>
    /\ sent' = Answered("failed")
    /\ Exit(1)
    /\ UNCHANGED <<Environment, Texts, Spinner, backend, model, Catalog, stderr, raw, output,
                   interrupted, proc>>

\* lines 232-234: no connection
OllamaUnreachable ==
    /\ pc = "ollama_wait"
    /\ stdout' = stdout \o <<MsgOllamaUnreachable>>
    /\ sent' = Answered("failed")
    /\ Exit(1)
    /\ UNCHANGED <<Environment, Texts, Spinner, backend, model, Catalog, stderr, raw, output,
                   interrupted, proc>>

\* line 221 raises (the body is not the expected JSON): lines 648-653
OllamaRaises ==
    /\ pc = "ollama_wait"
    /\ stdout' = stdout \o <<MsgError>>
    /\ sent' = Answered("failed")
    /\ Exit(1)
    /\ UNCHANGED <<Environment, Texts, Spinner, backend, model, Catalog, stderr, raw, output,
                   interrupted, proc>>

\* MissingApiKey without the sys.exit(1) of line 598: the messages are printed
\* and the request is sent all the same
MissingApiKey_NoExit ==
    /\ pc = "process"
    /\ args.ollama_model = ""
    /\ ~api_key
    /\ backend' = "openrouter"
    /\ stdout' = stdout \o <<MsgNoKey, MsgSetKey>>
    /\ StartSpinner
    /\ sent' = Append(sent, Request("chat_remote", model))
    /\ pc' = "openrouter_wait"
    /\ UNCHANGED <<Environment, Texts, Catalog, model, stderr, exit_code, raw, output,
                   interrupted, proc>>

\* lines 589-598: the remote branch without the credential
MissingApiKey ==
    /\ pc = "process"
    /\ args.ollama_model = ""
    /\ ~api_key
    /\ backend' = "openrouter"
    /\ stdout' = stdout \o <<MsgNoKey, MsgSetKey>>
    /\ Exit(1)
    /\ UNCHANGED <<Environment, Texts, Spinner, model, Catalog, sent, stderr, raw, output,
                   interrupted, proc>>

\* lines 589-632, 172-184: the remote branch, up to the POST
OpenRouterRequest ==
    /\ pc = "process"
    /\ args.ollama_model = ""
    /\ api_key
    /\ backend' = "openrouter"
    /\ stdout' = IF tty THEN stdout \o <<MsgUsingOpenRouter>> ELSE stdout
    /\ StartSpinner
    /\ sent' = Append(sent, Request("chat_remote", model))
    /\ pc' = "openrouter_wait"
    /\ UNCHANGED <<Environment, Texts, model, Catalog, stderr, exit_code, raw, output,
                   interrupted, proc>>

\* OpenRouterOk inside a retry loop that does not stop on success
OpenRouterOk_Retry ==
    /\ pc = "openrouter_wait"
    /\ model \in healthy
    /\ \E text \in SampleResponses :
        /\ raw' = text
        /\ output' = adapter_result(text)
    /\ sent' = Answered("ok")
    /\ pc' = "process"
    /\ UNCHANGED <<Environment, Texts, Spinner, Catalog, backend, model, stdout, stderr,
                   exit_code, interrupted, proc>>

\* lines 186-193: status 200
OpenRouterOk ==
    /\ pc = "openrouter_wait"
    /\ model \in healthy
    /\ \E text \in SampleResponses :
        /\ raw' = text
        /\ output' = adapter_result(text)
    /\ sent' = Answered("ok")
    /\ pc' = "stop"
    /\ UNCHANGED <<Environment, Texts, Spinner, backend, model, Catalog, stdout, stderr,
                   exit_code, interrupted, proc>>

\* OpenRouterStatus without the sys.exit(1) of line 197: the function returns
\* and main goes on to print
OpenRouterStatus_NoExit ==
    /\ pc = "openrouter_wait"
    /\ model \notin healthy
    /\ stdout' = stdout \o <<MsgChatFailed, MsgResponse>>
    /\ sent' = Answered("failed")
    /\ pc' = "stop"
    /\ UNCHANGED <<Environment, Texts, Spinner, Catalog, backend, model, stderr, exit_code,
                   raw, output, interrupted, proc>>

\* lines 194-197: another status; sys.exit(1) passes both except clauses of main
OpenRouterStatus ==
    /\ pc = "openrouter_wait"
    /\ model \notin healthy
    /\ stdout' = stdout \o <<MsgChatFailed, MsgResponse>>
    /\ sent' = Answered("failed")
    /\ Exit(1)
    /\ UNCHANGED <<Environment, Texts, Spinner, backend, model, Catalog, stderr, raw, output,
                   interrupted, proc>>

\* line 184 or 187 raises (no connection, a body that is not the expected JSON):
\* lines 648-653
OpenRouterRaises ==
    /\ pc = "openrouter_wait"
    /\ stdout' = stdout \o <<MsgError>>
    /\ sent' = Answered("failed")
    /\ Exit(1)
    /\ UNCHANGED <<Environment, Texts, Spinner, backend, model, Catalog, stderr, raw, output,
                   interrupted, proc>>

\* lines 583-584, 635-636: the adapter returned
StopSpinner ==
    /\ pc = "stop"
    /\ stop_spinner' = IF tty THEN TRUE ELSE stop_spinner
    /\ pc' = IF tty THEN "join" ELSE "print"
    /\ UNCHANGED <<Environment, Texts, spinner_thread, spinner_idx, backend, model, Catalog,
                   sent, stdout, stderr, exit_code, raw, output, interrupted, proc>>

\* lines 585-588, 637-640: spinner_thread.join() returns once the thread is over
Join ==
    /\ pc = "join"
    /\ spinner_thread = "finished"
    /\ stdout' = stdout \o <<MsgDone>>
    /\ pc' = "print"
    /\ UNCHANGED <<Environment, Texts, Spinner, backend, model, Catalog, sent, stderr,
                   exit_code, raw, output, interrupted, proc>>

\* line 656, then the script ends
PrintOutput ==
    /\ pc = "print"
    /\ stdout' = stdout \o <<MsgOutput>>
    /\ Exit(0)
    /\ UNCHANGED <<Environment, Texts, Spinner, backend, model, Catalog, sent, stderr,
                   raw, output, interrupted, proc>>

\* A KeyboardInterrupt reaches the main thread.  Inside the try of main it is
\* handled at lines 642-647, elsewhere at lines 686-693; both print to standard
\* output and call sys.exit(1).  The pending request is abandoned.
Interrupt ==
    /\ pc # "exited"
    /\ interrupted' = TRUE
    /\ stdout' = stdout \o <<IF pc \in InTry THEN MsgCancelled ELSE MsgCancelledByUser>>
    /\ sent' = Answered("aborted")
    /\ Exit(1)
    /\ UNCHANGED <<Environment, Texts, Spinner, backend, model, Catalog, stderr, raw, output,
                   proc>>

\* lines 565-568, 616-619: one turn of the spinner loop.  A frame overwrites the
\* frame before it on the terminal line.
Spin ==
    /\ spinner_thread = "running"
    /\ ~stop_spinner
    /\ stdout' = IF stdout # <<>> /\ stdout[Len(stdout)] = MsgSpinnerFrame
                 THEN stdout ELSE stdout \o <<MsgSpinnerFrame>>
    /\ spinner_idx' = (spinner_idx + 1) % SpinnerChars
    /\ UNCHANGED <<Environment, Texts, stop_spinner, spinner_thread, pc, backend, model,
                   Catalog, sent, stderr, exit_code, raw, output, interrupted, proc>>

\* the loop condition of lines 566, 617 fails: the thread is over
SpinExit ==
    /\ spinner_thread = "running"
    /\ stop_spinner
    /\ spinner_thread' = "finished"
    /\ UNCHANGED <<Environment, Texts, stop_spinner, spinner_idx, pc, backend, model, Catalog,
                   sent, stdout, stderr, exit_code, raw, output, interrupted, proc>>

\* The interpreter ends the process once the main thread is over and every
\* non-daemon thread has finished (the spinner thread of lines 570, 621 is not a
\* daemon thread).
ProcessExit ==
    /\ pc = "exited"
    /\ proc = "alive"
    /\ spinner_thread # "running"
    /\ proc' = "terminated"
    /\ UNCHANGED <<Environment, Texts, Spinner, pc, backend, model, Catalog, sent, stdout,
                   stderr, exit_code, raw, output, interrupted>>

\* the steps of the program
Program ==
    \/ MainEntry \/ HelpExamples
    \/ ListModelsRequest \/ ListOllamaRequest \/ FreeRequest
    \/ NoInput \/ ListTodoFiles \/ StartProcessing
    \/ OllamaRequest \/ MissingApiKey \/ OpenRouterRequest
    \/ StopSpinner \/ Join \/ PrintOutput
    \/ Spin \/ SpinExit \/ ProcessExit

\* the steps of the backends and of the user
World ==
    \/ ListModelsOk \/ ListModelsStatus \/ ListModelsRaises \/ ListOllamaAnswer
    \/ FreeOk \/ FreeStatus \/ FreeRaises
    \/ OllamaOk \/ OllamaStatus \/ OllamaUnreachable \/ OllamaRaises
    \/ OpenRouterOk \/ OpenRouterStatus \/ OpenRouterRaises
    \/ Interrupt

Next == Program \/ World

Spec == Init /\ [][Next]_vars

\* The interpreter schedules every thread that can run; no backend is bound to
\* answer and no user to interrupt.
FairSpec == Spec /\ WF_vars(Program)

(***************************************************************************)
(* Properties of the run.                                                  *)
(***************************************************************************)
Printed(stream) == {stream[i] : i \in 1..Len(stream)}

\* the chat requests sent so far, in order
ChatRequests == SelectSeq(sent, LAMBDA r : r.kind \in {"chat_remote", "chat_local"})

RemoteChats == SelectSeq(sent, LAMBDA r : r.kind = "chat_remote")

\* C1: whenever the spinner thread has been started it is stopped on every
\* exit path of the backend call.  Only the main thread sets the stop flag, so
\* the flag is set and the process can end only if it is set by the time the
\* main thread is over.
C1_SpinnerStoppedOnEveryExit ==
    (pc = "exited" /\ spinner_thread # "none") => stop_spinner

\* the first fallback of the plan built on the fetched catalog: its second entry
HasFallback == Len(models) >= 2
FirstFallback == models[2]

\* the request to the primary model failed
PrimaryFailed == Len(RemoteChats) >= 1 /\ RemoteChats[1].status = "failed"

C3_FailureKeepsStdoutEmpty ==
    (pc = "exited" /\ exit_code = 1)
    => /\ stdout = <<>>
       /\ Printed(stderr) \cap Diagnostics # {}

\* the run failed: a backend request failed, the credential of the selected
\* remote backend is missing, or the user cancelled
RunFailed ==
    \/ \E i \in 1..Len(sent) : sent[i].status = "failed"
    \/ backend = "openrouter" /\ ~api_key
    \/ interrupted

\* C4: the exit code is 0 when the run succeeds and 1 on every backend failure,
\* configuration failure and cancellation; no failing run exits with 0.
C4_ExitCodeTellsFailure ==
    pc = "exited" => (exit_code = IF RunFailed THEN 1 ELSE 0)

\* --free fetched a catalog that has no entry with price information, and the
\* run has input to process
UnpricedCatalogFetched ==
    /\ ~args.help_examples /\ ~args.list_models /\ ~args.list_ollama_models
    /\ args.free /\ args.ollama_model = ""
    /\ args.has_input /\ ~args.list_todo_files
    /\ Len(sent) >= 1 /\ sent[1].kind = "catalog" /\ sent[1].status = "ok"
    /\ ~priced

\* C5: with --free and a catalog without any priced entry the run fails: no
\* chat request is sent and the exit status is not 0.
C5_NoModelsAvailableIsFatal ==
    UnpricedCatalogFetched
    => /\ ChatRequests = <<>>
       /\ pc = "exited" => exit_code # 0

\* C6: an interrupt while a backend request is in flight aborts the request,
\* the process then ends with a non-zero status, and nothing is written to
\* standard output in that run.
C6_CancelEndsSilently ==
    (\E i \in 1..Len(sent) : sent[i].status = "aborted")
    => /\ pc = "exited" /\ exit_code = 1
       /\ InFlight = {}
       /\ spinner_thread # "running"
       /\ stdout = <<>>

\* C7: every backend request has a bounded wait: a request that is in flight
\* is over after some time, answered or timed out.
C7_RequestsEnd == (InFlight # {}) ~> (InFlight = {})

\* C8: when the backend dispatch takes the remote branch and the credential is
\* absent, the run is over at once with status 1 and the guidance printed; no
\* chat request has been sent to either backend and no thread is left running.
C8_MissingCredentialIsFatal ==
    (backend = "openrouter" /\ ~api_key)
    => /\ pc = "exited"
       /\ exit_code = 1
       /\ {MsgNoKey, MsgSetKey} \subseteq Printed(stdout) \cup Printed(stderr)
       /\ ChatRequests = <<>>
       /\ InFlight = {}
       /\ spinner_thread = "none"

\* the case of C8, after a catalog fetch of --free and without one
C8_Witness ==
    /\ backend = "openrouter" /\ ~api_key
    /\ proc = "terminated"
    /\ args.free

FetchedIds == {models[i] : i \in 1..Len(models)}

\* C15: with --free on the remote path the model of the chat request is the id of
\* an entry of the fetched catalog or, when no entry was selected, the value of
\* --model; it is never text that the catalog fetch printed.
C15_FreeModelIsAnId ==
    \A i \in 1..Len(sent) :
        (sent[i].kind = "chat_remote" /\ args.free)
        => /\ sent[i].model \in FetchedIds \cup {DefaultModel}
           /\ sent[i].model \notin {MsgTableHeader, MsgTableRule, MsgTableRow,
                                    MsgCatalogFailed, MsgResponse}

\* the listing options and --help-examples are absent: main gets to the input
Processing == ~args.help_examples /\ ~args.list_models /\ ~args.list_ollama_models

RemoteRequests == SelectSeq(sent, LAMBDA r : r.kind \in {"catalog", "chat_remote"})
LocalRequests == SelectSeq(sent, LAMBDA r : r.kind \in {"tags", "chat_local"})

\* at most one chat request; none on the paths that end before the processing
OneChatRequest ==
    /\ Len(ChatRequests) <= 1
    /\ (~Processing \/ ~args.has_input \/ args.list_todo_files) => ChatRequests = <<>>

\* C16 as stated: at most one chat request; with a local model no request of any
\* kind goes to the remote service and the run does not depend on the
\* credential; without one no request goes to the local backend; the
\* help-examples, listing, list-todo-files and empty-input paths send no chat
\* request.
C16_OneBackend ==
    /\ OneChatRequest
    /\ args.ollama_model # "" => /\ RemoteRequests = <<>>
                                 /\ MsgNoKey \notin Printed(stdout) \cup Printed(stderr)
    /\ args.ollama_model = "" => LocalRequests = <<>>

\* C16 amended: the same, for the runs without a listing option; --list-models
\* sends the catalog request and --list-ollama-models the tags request, whatever
\* --ollama-model is.
C16_OneBackendWhenProcessing ==
    /\ OneChatRequest
    /\ (Processing /\ args.ollama_model # "")
       => /\ RemoteRequests = <<>>
          /\ MsgNoKey \notin Printed(stdout) \cup Printed(stderr)
    /\ (Processing /\ args.ollama_model = "") => LocalRequests = <<>>
    /\ (~args.help_examples /\ args.list_models) => LocalRequests = <<>>
    /\ (~args.help_examples /\ ~args.list_models /\ args.list_ollama_models)
       => RemoteRequests = <<>>

\* the case of C16: --free with a local model and no credential; the one request
\* of the run is the chat request to the local backend, and the run succeeds
C16_Witness ==
    /\ Processing
    /\ args.free /\ args.ollama_model # "" /\ ~api_key
    /\ Len(sent) = 1 /\ sent[1].kind = "chat_local" /\ sent[1].status = "ok"
    /\ proc = "terminated" /\ exit_code = 0

(***************************************************************************)
(* extract_fixed_file on its own: every answer of up to MaxTokens tokens.  *)
(***************************************************************************)
Tokens == {Fence, <<"a">>, <<"b">>, <<"\n">>}

RECURSIVE Flatten(_)
Flatten(ts) == IF ts = <<>> THEN <<>> ELSE ts[1] \o Flatten(Tail(ts))

RawInputs == {Flatten(ts) : ts \in UNION {[1..n -> Tokens] : n \in 0..MaxTokens}}

InitExtract ==
    /\ raw \in RawInputs
    /\ pc = "extract_fixed_file"
    /\ \E fix \in BOOLEAN, local \in {"", OllamaModel} :
          args = [help_examples |-> FALSE, list_models |-> FALSE,
                  list_ollama_models |-> FALSE, free |-> FALSE, ollama_model |-> local,
                  sort_by |-> "price", list_todo_files |-> FALSE,
                  fix_file_only |-> fix, has_input |-> TRUE]
    /\ tty = FALSE
    /\ api_key = TRUE
    /\ healthy = {DefaultModel}
    /\ backend = "none"
    /\ model = DefaultModel
    /\ models = <<>>
    /\ priced = FALSE
    /\ sent = <<>>
    /\ stdout = <<>>
    /\ stderr = <<>>
    /\ exit_code = NoExit
    /\ stop_spinner = FALSE
    /\ spinner_thread = "none"
    /\ spinner_idx = 0
    /\ output = <<>>
    /\ interrupted = FALSE
    /\ proc = "alive"
    /\ response_data = <<>>
    /\ input_text = <<>>
    /\ files_with_todos = <<>>
    /\ content = <<>>

\* lines 189-193, 223-227: what the adapter returns for the answer text
ExtractCall ==
    /\ pc = "extract_fixed_file"
    /\ output' = adapter_result(raw)
    /\ pc' = "returned"
    /\ UNCHANGED <<Environment, Texts, Spinner, Catalog, backend, model, sent, stdout,
                   stderr, exit_code, raw, interrupted, proc>>

NextExtract == ExtractCall

SpecExtract == InitExtract /\ [][NextExtract]_vars

(***************************************************************************)
(* Properties of extract_fixed_file.                                       *)
(***************************************************************************)
\* the fences of a text, left to right
RECURSIVE FencePositions(_, _)
FencePositions(s, p) ==
    IF p > Len(s) THEN <<>>
    ELSE IF IsFence(s, p) THEN <<p>> \o FencePositions(s, p + 3)
    ELSE FencePositions(s, p + 1)

\* the fenced blocks of a text: what stands between its first and second fence,
\* between its third and fourth, and so on
FencedBlocks(s) ==
    LET f == FencePositions(s, 1)
    IN  [k \in 1..(Len(f) \div 2) |-> SubSeq(s, f[2 * k - 1] + 3, f[2 * k] - 1)]

\* The trimmed contents of a block.  The word directly after the opening fence
\* may be read as the language tag or as contents: "always" takes it as the tag,
\* "never" as contents, "line" as the tag when a line break follows it.
BlockContents(inner, reading) ==
    LET word == Run(inner, 1, WordChars)
        tag  == CASE reading = "always" -> word
                  [] reading = "never" -> 0
                  [] reading = "line" ->
                       IF word < Len(inner) /\ inner[word + 1] \in SpaceChars
                       THEN word ELSE 0
    IN  strip(SubSeq(inner, tag + 1, Len(inner)))

TagReadings == {"always", "never", "line"}

\* the trimmed contents of the longest block, the first of the longest ones
LongestBlock(s, reading) ==
    LET contents == [k \in 1..Len(FencedBlocks(s)) |->
                        BlockContents(FencedBlocks(s)[k], reading)]
        best     == Max({Len(contents[k]) : k \in 1..Len(contents)})
    IN  contents[Min({k \in 1..Len(contents) : Len(contents[k]) = best})]

\* the text holds a fenced block that is not blank
HasFencedBlock(s) ==
    \E k \in 1..Len(FencedBlocks(s)) : strip(FencedBlocks(s)[k]) # <<>>

\* C10: for every answer that holds at least one fenced block, the extraction
\* returns the trimmed contents of the longest fenced block, the first one when
\* several are longest, whatever surrounds the blocks (and however the optional
\* language tag is read).
C10_LongestFencedBlock ==
    (pc = "returned" /\ args.fix_file_only /\ HasFencedBlock(raw))
    => \E reading \in TagReadings : output = LongestBlock(raw, reading)

\* C14: when fixed-file extraction is not requested, what the adapter returns is
\* the raw assistant text unchanged, for every raw text and either adapter.
C14_RawWhenNotRequested ==
    (pc = "returned" /\ ~args.fix_file_only) => output = raw

\* the case of C14: an answer with a fenced block and prose around it, returned
\* whole by the local adapter
C14_Witness ==
    /\ pc = "returned"
    /\ ~args.fix_file_only
    /\ args.ollama_model # ""
    /\ HasFencedBlock(raw)
    /\ extract_fixed_file(raw) # raw
    /\ output = raw

(***************************************************************************)
(* The functions on their own: each is called once on every input of its   *)
(* bounded input set.                                                      *)
(***************************************************************************)
\* the command line of a call: the options the function under call reads are set
\* by the specification of the call
CallArgs ==
    [help_examples |-> FALSE, list_models |-> FALSE, list_ollama_models |-> FALSE,
     free |-> FALSE, ollama_model |-> "", sort_by |-> "price",
     list_todo_files |-> FALSE, fix_file_only |-> FALSE, has_input |-> TRUE]

\* main is about to call fn; nothing was sent or printed
AtCall(fn) ==
    /\ pc = fn
    /\ tty = FALSE
    /\ api_key = TRUE
    /\ healthy = {DefaultModel}
    /\ backend = "none"
    /\ model = DefaultModel
    /\ models = <<>>
    /\ priced = FALSE
    /\ sent = <<>>
    /\ stdout = <<>>
    /\ stderr = <<>>
    /\ exit_code = NoExit
    /\ stop_spinner = FALSE
    /\ spinner_thread = "none"
    /\ spinner_idx = 0
    /\ output = <<>>
    /\ interrupted = FALSE
    /\ proc = "alive"

(***************************************************************************)
(* The automatic selection of --free on every catalog of up to MaxCatalog  *)
(* entries.                                                                *)
(***************************************************************************)
InitCatalog ==
    /\ AtCall("fetch_openrouter_models")
    /\ \E key \in SortKeys : args = [CallArgs EXCEPT !.free = TRUE, !.sort_by = key]
    /\ response_data \in Catalogs
    /\ raw = <<>>
    /\ input_text = <<>>
    /\ files_with_todos = <<>>
    /\ content = <<>>

\* lines 505-511 on a 200 answer holding response_data: FreeOk for that catalog
AutoSelectCall ==
    /\ pc = "fetch_openrouter_models"
    /\ models' = model_ids(response_data, args.sort_by)
    /\ priced' = \E i \in 1..Len(response_data) : response_data[i].pricing
    /\ model' = set_free_model(catalog_prints(response_data, 1, TRUE, args.sort_by))
    /\ pc' = "returned"
    /\ UNCHANGED <<Environment, Texts, Spinner, backend, sent, stdout, stderr,
                   exit_code, raw, output, interrupted, proc>>

NextCatalog == AutoSelectCall

SpecCatalog == InitCatalog /\ [][NextCatalog]_vars

\* the entries of a catalog that have price information and are not the
\* auto-router entry
Eligible(d) == {i \in 1..Len(d) : d[i].pricing /\ d[i].id # AutoRouter}

\* the prompt price of an entry, as a number
PromptPrice(e) == float(e.prompt)

\* x stands before y under the criterion
Precedes(x, y, criterion) ==
    CASE criterion = "price" ->
           \/ PromptPrice(x) < PromptPrice(y)
           \/ PromptPrice(x) = PromptPrice(y) /\ x.context_length > y.context_length
      [] criterion = "best" -> PromptPrice(x) > PromptPrice(y)
      [] criterion = "context" ->
           \/ x.context_length > y.context_length
           \/ x.context_length = y.context_length /\ PromptPrice(x) < PromptPrice(y)

\* C11: in automatic selection the chosen model is an entry that has price
\* information and is not the auto-router entry, and no such entry of the
\* catalog stands before it under the criterion (price: ascending prompt price,
\* then descending context length; best: descending price; context: descending
\* context length, then ascending price).
C11_PrimaryIsFirstByCriterion ==
    (pc = "returned" /\ Eligible(response_data) # {})
    => \E i \in Eligible(response_data) :
          /\ model = response_data[i].id
          /\ \A j \in Eligible(response_data) :
                ~Precedes(response_data[j], response_data[i], args.sort_by)

(***************************************************************************)
(* analyze_codebase_for_todos on every input text of up to MaxParts parts. *)
(***************************************************************************)
\* the literal text of file_pattern (line 292)
FileMarker == <<"#", " ", "F", "i", "l", "e", ":", " ">>
TodoWords == {<<"T", "O", "D", "O">>, <<"F", "I", "X", "M", "E">>}

InputParts ==
    {FileMarker, <<"a">>, <<"\n">>, <<"T", "O", "D", "O">>, <<"f", "i", "x", "m", "e">>,
     FileMarker \o <<"a", "\n">>, FileMarker \o <<"b", "\n">>}

InputTexts == {Flatten(ts) : ts \in UNION {[1..n -> InputParts] : n \in 0..MaxParts}}

\* the characters of the input texts, and the ones "." matches (all but the newline)
InputChars == UNION {{part[i] : i \in 1..Len(part)} : part \in InputParts}
Dot == InputChars \ {"\n"}

\* the letter c without its case (the (?i) of line 296)
casefold(c) ==
    CASE c = "T" -> "t" [] c = "O" -> "o" [] c = "D" -> "d"
      [] c = "F" -> "f" [] c = "I" -> "i" [] c = "X" -> "x"
      [] c = "M" -> "m" [] c = "E" -> "e" [] OTHER -> c

\* file_pattern tried at position p (line 292):   # File: (.+)
\* the literal, then the rest of the line, which must not be empty
file_pattern_match(s, p) ==
    LET n    == Len(FileMarker)
        rest == Run(s, p + n, Dot)
    IN  IF /\ p + n - 1 <= Len(s)
           /\ \A i \in 1..n : s[p + i - 1] = FileMarker[i]
           /\ rest >= 1
        THEN [ok |-> TRUE, start |-> p, group |-> SubSeq(s, p + n, p + n + rest - 1),
              next |-> p + n + rest]
        ELSE [ok |-> FALSE, start |-> 0, group |-> <<>>, next |-> 0]

\* re.split(file_pattern, input_text) from position p on (line 301): the text up
\* to the leftmost match, the group of the match, then the split of what follows
RECURSIVE re_split(_, _)
re_split(s, p) ==
    LET hits == {i \in p..Len(s) : file_pattern_match(s, i).ok}
    IN  IF hits = {} THEN <<SubSeq(s, p, Len(s))>>
        ELSE LET m == file_pattern_match(s, Min(hits))
             IN  <<SubSeq(s, p, m.start - 1), m.group>> \o re_split(s, m.next)

\* re.search(todo_pattern, content) finds a match (lines 296, 312)
search_todo(text) ==
    \E w \in TodoWords : \E p \in 1..Len(text) :
        /\ p + Len(w) - 1 <= Len(text)
        /\ \A i \in 1..Len(w) : casefold(text[p + i - 1]) = casefold(w[i])

\* parts with nothing skipped
skip_first_None(parts) == parts

\* parts = parts[1:]  (line 304)
skip_first(parts) == Tail(parts)

\* analyze_codebase_for_todos(input_text)
analyze_codebase_for_todos(text) ==
    LET parts == skip_first(re_split(text, 1))
        pairs == [k \in 1..(Len(parts) \div 2) |->
                     [filename |-> parts[2 * k - 1], content |-> parts[2 * k]]]
        found == SelectSeq(pairs, LAMBDA pair : search_todo(pair.content))
    IN  [k \in 1..Len(found) |-> found[k].filename]

InitTodos ==
    /\ AtCall("analyze_codebase_for_todos")
    /\ args = [CallArgs EXCEPT !.list_todo_files = TRUE]
    /\ input_text \in InputTexts
    /\ raw = <<>>
    /\ response_data = <<>>
    /\ files_with_todos = <<>>
    /\ content = <<>>

\* line 522
AnalyzeCall ==
    /\ pc = "analyze_codebase_for_todos"
    /\ files_with_todos' = analyze_codebase_for_todos(input_text)
    /\ pc' = "returned"
    /\ UNCHANGED <<Environment, Spinner, Catalog, backend, model, sent, stdout,
                   stderr, exit_code, raw, output, interrupted, proc,
                   response_data, input_text, content>>

NextTodos == AnalyzeCall

SpecTodos == InitTodos /\ [][NextTodos]_vars

(***************************************************************************)
(* Properties of analyze_codebase_for_todos.                               *)
(***************************************************************************)
\* the marker text stands at position p and a path follows it on the line
HeaderAt(s, p) ==
    /\ p + Len(FileMarker) <= Len(s)
    /\ SubSeq(s, p, p + Len(FileMarker) - 1) = FileMarker
    /\ s[p + Len(FileMarker)] # "\n"

\* the file headers of a text: a marker that is not part of the path of a
\* header standing before it on the same line
FileHeaders(s) ==
    {p \in 1..Len(s) :
        /\ HeaderAt(s, p)
        /\ ~\E q \in 1..(p - 1) : HeaderAt(s, q) /\ \A i \in q..(p - 1) : s[i] # "\n"}

\* the last position of the line that position p is on
LineEnd(s, p) == Min({i \in p..Len(s) : i = Len(s) \/ s[i + 1] = "\n"})

\* the path of the header at p: the rest of its line
PathOf(s, p) == SubSeq(s, p + Len(FileMarker), LineEnd(s, p))

\* the section of the header at p: from the end of its line to the next header
SectionOf(s, p) ==
    LET later == {q \in FileHeaders(s) : q > p}
    IN  SubSeq(s, LineEnd(s, p) + 1, IF later = {} THEN Len(s) ELSE Min(later) - 1)

\* the text holds one of the words TODO and FIXME: as written, or in any letter case
HoldsWord(text, anycase) ==
    \E w \in TodoWords : \E p \in 1..Len(text) :
        /\ p + Len(w) - 1 <= Len(text)
        /\ LET found == SubSeq(text, p, p + Len(w) - 1)
           IN  IF anycase
               THEN [i \in 1..Len(w) |-> casefold(found[i])]
                    = [i \in 1..Len(w) |-> casefold(w[i])]
               ELSE found = w

\* the paths of the headers whose section holds a marker, in order of appearance
FilesWithMarker(s, anycase) ==
    LET marked == {p \in FileHeaders(s) : HoldsWord(SectionOf(s, p), anycase)}
        nth(k) == CHOOSE p \in marked : Cardinality({q \in marked : q < p}) = k - 1
    IN  [k \in 1..Cardinality(marked) |-> PathOf(s, nth(k))]

\* C12 as stated: the result is exactly the file names, in order of appearance,
\* of the "# File: <path>" sections whose content contains TODO or FIXME; text
\* before the first header counts for nothing.
C12_FilesWithTodoMarker ==
    pc = "returned" => files_with_todos = FilesWithMarker(input_text, FALSE)

\* C12 amended: the result is exactly the file names, in order of appearance,
\* of the sections whose content contains the letters of TODO or of FIXME in any
\* letter case.
C12_FilesWithMarkerAnyCase ==
    pc = "returned" => files_with_todos = FilesWithMarker(input_text, TRUE)

\* the case of C12: a marker before the first header, a first file without a
\* marker and a second file with one; only the second file is returned
C12_Witness ==
    /\ pc = "returned"
    /\ Cardinality(FileHeaders(input_text)) = 2
    /\ HoldsWord(SubSeq(input_text, 1, Min(FileHeaders(input_text)) - 1), TRUE)
    /\ ~HoldsWord(SectionOf(input_text, Min(FileHeaders(input_text))), TRUE)
    /\ files_with_todos = <<<<"b">>>>

(***************************************************************************)
(* The instruction text of the chat request.  Here a text is the sequence  *)
(* of its pieces: the literal parts of the templates, the values put into  *)
(* them, the words of the input.                                           *)
(***************************************************************************)
\* --prompt: its default (line 469) and a prompt of the user
DefaultPrompt == <<"Fix the TODOs in the file below and output the full file: ">>
Prompts == {DefaultPrompt, <<"Add type hints to the code below: ">>}
\* --target-file; "" stands for the option not given (None), false at line 167 as
\* the empty string is
TargetFiles == {"", "x.py", "lib/y.py"}
PromptInputs == UNION {[1..n -> {"x = 1", "\n"}] : n \in 1..2}

IdentifyTheFile ==
    "If this is a flattened codebase, identify the file that has TODOs and only return the complete fixed version of that file. "
NoExplanations ==
    "Do not include any explanations, headers, or markdown formatting: "

\* the f-string of lines 168 and 204
target_file_prompt(target_file) ==
    <<"Fix the TODOs in the file '", target_file,
      "' from the codebase below. Only return the complete fixed version of '",
      target_file, "', nothing else. ", NoExplanations>>

\* the string of lines 170 and 206
any_file_prompt == <<"Fix the TODOs in the code below. ", IdentifyTheFile, NoExplanations>>

\* process_with_ollama that sends the prompt it was given, whatever the mode
ollama_content_AsGiven(prompt, text, fix_file_only, target_file) == prompt \o text

\* process_with_openrouter, lines 166-180: the content of the user message
openrouter_content(prompt, text, fix_file_only, target_file) ==
    LET adjusted == IF fix_file_only
                    THEN IF target_file # "" THEN target_file_prompt(target_file)
                         ELSE any_file_prompt
                    ELSE prompt
    IN  adjusted \o text

\* process_with_ollama, lines 202-212: the content of the user message
ollama_content(prompt, text, fix_file_only, target_file) ==
    LET adjusted == IF fix_file_only
                    THEN IF target_file # "" THEN target_file_prompt(target_file)
                         ELSE any_file_prompt
                    ELSE prompt
    IN  adjusted \o text

InitPrompt ==
    /\ AtCall("process")
    /\ \E fix \in BOOLEAN, local \in {"", OllamaModel}, p \in Prompts, t \in TargetFiles :
          args = [CallArgs EXCEPT !.fix_file_only = fix, !.ollama_model = local]
                 @@ [prompt |-> p, target_file |-> t]
    /\ input_text \in PromptInputs
    /\ raw = <<>>
    /\ response_data = <<>>
    /\ files_with_todos = <<>>
    /\ content = <<>>

\* lines 574-580, 202-212: the local adapter builds its request
OllamaContent ==
    /\ pc = "process"
    /\ args.ollama_model # ""
    /\ backend' = "ollama"
    /\ content' = ollama_content(args.prompt, input_text, args.fix_file_only,
                                 args.target_file)
    /\ pc' = "returned"
    /\ UNCHANGED <<Environment, Spinner, Catalog, model, sent, stdout, stderr,
                   exit_code, raw, output, interrupted, proc, response_data,
                   input_text, files_with_todos>>

\* lines 625-632, 166-180: the remote adapter builds its request
OpenRouterContent ==
    /\ pc = "process"
    /\ args.ollama_model = ""
    /\ backend' = "openrouter"
    /\ content' = openrouter_content(args.prompt, input_text, args.fix_file_only,
                                     args.target_file)
    /\ pc' = "returned"
    /\ UNCHANGED <<Environment, Spinner, Catalog, model, sent, stdout, stderr,
                   exit_code, raw, output, interrupted, proc, response_data,
                   input_text, files_with_todos>>

NextPrompt == OllamaContent \/ OpenRouterContent

SpecPrompt == InitPrompt /\ [][NextPrompt]_vars

\* the pieces of a text
Pieces(text) == {text[i] : i \in 1..Len(text)}

\* the text ends with the input and what stands before the input
EndsWithInput ==
    /\ Len(content) >= Len(input_text)
    /\ SubSeq(content, Len(content) - Len(input_text) + 1, Len(content)) = input_text
Instruction == SubSeq(content, 1, Len(content) - Len(input_text))

\* C13: the instruction text depends on the request alone and is the same for
\* both adapters: it ends with the input text; without fix-only what stands
\* before the input is the base prompt verbatim; with fix-only and a target file
\* it names the target file, lacks the identify-the-file instruction and is not
\* the base prompt; with fix-only and no target file it holds the
\* identify-the-file instruction and is not the base prompt.
C13_InstructionText ==
    pc = "returned"
    => /\ EndsWithInput
       /\ ~args.fix_file_only => Instruction = args.prompt
       /\ (args.fix_file_only /\ args.target_file # "")
          => /\ args.target_file \in Pieces(Instruction)
             /\ IdentifyTheFile \notin Pieces(Instruction)
             /\ Pieces(Instruction) \cap Pieces(args.prompt) = {}
             /\ Instruction = target_file_prompt(args.target_file)
       /\ (args.fix_file_only /\ args.target_file = "")
          => /\ IdentifyTheFile \in Pieces(Instruction)
             /\ Pieces(Instruction) \cap Pieces(args.prompt) = {}
             /\ Instruction = any_file_prompt

\* the case of C13: the local adapter in fix-only mode with a target file
C13_Witness ==
    /\ pc = "returned"
    /\ backend = "ollama"
    /\ args.fix_file_only
    /\ args.target_file = "x.py"
    /\ "x.py" \in Pieces(content)

====
